---------------------------- MODULE Spec2Model ----------------------------
(***************************************************************************)
(* Model of the per-handler scheduler of IMSErious (src/src/handler.rs,    *)
(* Handler::task and Handler::execute_command), of the watch channel that  *)
(* feeds it (notify in src/src/main.rs) and of the join loop that ends     *)
(* run() in src/src/main.rs.                                               *)
(*                                                                         *)
(* Time is the monotonic clock in whole seconds.  The scheduler is one     *)
(* task on a current_thread runtime: between two suspension points         *)
(* (timeout_at(..).await and command.status().await) it runs atomically,   *)
(* so one loop iteration is one action.                                    *)
(***************************************************************************)
EXTENDS Integers, Sequences, FiniteSets

VARIABLES
    cfg,             \* the Handler: delay, limit_period, limit_burst, periodic
    now,             \* monotonic clock
    pc,              \* position of Handler::task
    next_delay,      \* handler.rs:37
    latest,          \* handler.rs:38
    last_execution,  \* handler.rs:39
    tat,             \* state of the governor limiter (theoretical arrival time)
    slot,            \* value held by the watch channel
    changed,         \* the channel's version differs from the receiver's
    closed,          \* every watch::Sender has been dropped
    inflight,        \* children started by execute_command and not yet exited
    sup,             \* position of run()
    joined,          \* tasks run() has awaited so far
    peer,            \* lifecycle of the task of another configured handler
    sent,            \* events delivered by notify so far
    advances,        \* clock advances so far
    last,            \* outcome of the scheduler's latest step
    first_event_at,  \* history: time of the first observation since the last commit
    last_event_at,   \* history: time of the latest observation since the last commit
    observed,        \* history: latest value observed since the last commit
    deniedSince,     \* history: the gate denied a spawn since the last commit
    spawn,           \* history: the latest commit
    evTimes,         \* history: times of the latest event-driven commits
    completedAt,     \* history: when the latest child exited (task start before)
    unseenAtClose,   \* history: the slot held an unobserved value when it closed
    spawnsAfterClose, \* history: commits made after the slot closed
    route            \* notify's registry: each entry's slot and receiver

vars == <<cfg, now, pc, next_delay, latest, last_execution, tat, slot, changed,
          closed, inflight, sup, joined, peer, sent, advances, last,
          first_event_at, last_event_at, observed, deniedSince, spawn,
          evTimes, completedAt, unseenAtClose, spawnsAfterClose, route>>

sched == <<pc, next_delay, latest, last_execution, tat, inflight>>
hist  == <<first_event_at, last_event_at, observed, deniedSince, spawn,
           evTimes, completedAt, spawnsAfterClose>>

---------------------------------------------------------------------------
(* Bounds of the exploration *)
MaxAdvances == 3
MaxEvents   == 3

(* Option::None, for durations, payloads and instants *)
None == -1

(* Values of the Handler fields the model draws from *)
Delays       == {None, 2}
LimitPeriods == {None, 0, 10, 60}
LimitBursts  == {None, 2}
Periodics    == {None, 5}

Max(a, b) == IF a >= b THEN a ELSE b

---------------------------------------------------------------------------
(* handler.rs:36  self.periodic.unwrap_or(Duration::from_secs(3600)) *)
IdleWakeSecs == 3600

(* a task that sleeps the idle hour whatever periodic says *)
PeriodIdleOnly == IdleWakeSecs

Period == IF cfg.periodic # None THEN cfg.periodic ELSE IdleWakeSecs

(* handler.rs:42-44  limit_period.filter(Duration::is_zero).unwrap_or(30s):  *)
(* Option::filter keeps the value when the predicate holds.                  *)
DefaultLimitSecs == 30

QuotaPeriod ==
    IF cfg.limit_period # None /\ cfg.limit_period = 0
    THEN cfg.limit_period
    ELSE DefaultLimitSecs

(* handler.rs:41,46  Quota::with_period is None for a zero period and       *)
(* expect() panics on it.                                                    *)
QuotaPanics == QuotaPeriod = 0

(* handler.rs:47  allow_burst(self.limit_burst.unwrap_or(nonzero!(1u32))) *)
Burst == IF cfg.limit_burst # None THEN cfg.limit_burst ELSE 1

(* governor's GCRA behind limiter.check() (handler.rs:49,72): t is the      *)
(* replenish interval, tau = t * burst, the first check starts from t0 + t. *)
GcraT   == QuotaPeriod
GcraTau == QuotaPeriod * Burst
TatAt(t0) == IF tat = None THEN t0 + GcraT ELSE tat
EarliestAt(t0) == Max(TatAt(t0) - GcraTau, 0)
CheckOk(t0) == t0 >= EarliestAt(t0)
TatAfter(t0) == Max(TatAt(t0), t0) + GcraT

(* handler.rs:51  timeout_at(last_execution + next_delay, ..) *)
Deadline == last_execution + next_delay

---------------------------------------------------------------------------
(* config: every combination of the optional Handler fields (handler.rs:20-27) *)
Configs ==
    [delay : Delays, limit_period : LimitPeriods,
     limit_burst : LimitBursts, periodic : Periodics]

NoSpawn == [t |-> None, msg |-> None, first |-> None, lastObs |-> None,
            observed |-> None, denied |-> FALSE, base |-> None,
            tatBefore |-> None, tatAfter |-> None, closed |-> FALSE,
            env |-> {}]

(* into_sender_handle (handler.rs:125-131): watch::channel(None), the task *)
(* spawned and not yet polled; run() (main.rs:108-115) is about to serve.  *)
(* The handler's routing key (handler.rs:18-19) *)
HandlerEvent == "MessageNew"
HandlerUser  == "alice"

(* main.rs:108-115  the registry run() builds, one (event, user, sender)   *)
(* per configured handler, in configuration order; two handlers share a key *)
Registry ==
    <<[event |-> HandlerEvent, user |-> HandlerUser],
      [event |-> HandlerEvent, user |-> "bob"],
      [event |-> HandlerEvent, user |-> HandlerUser],
      [event |-> "MailboxCreate", user |-> HandlerUser]>>

Entries == DOMAIN Registry

(* keys of the events the notifier posts; some match no entry *)
EventKeys ==
    {[event |-> e, user |-> u] :
        e \in {HandlerEvent, "MailboxCreate", "FlagsSet"},
        u \in {HandlerUser, "bob", "carol"}}

StatusOK == 200

(* a filter that compares the event kind only *)
MatchesEventOnly(entry, message) == entry.event = message.event

(* main.rs:245  the filter of notify *)
Matches(entry, message) ==
    entry.event = message.event /\ entry.user = message.user

(* watch::Sender::send (main.rs:247): stores the value and marks it unseen *)
(* when a receiver exists, fails and stores nothing otherwise              *)
SlotAfterSend(entry, value) ==
    IF entry.alive THEN [entry EXCEPT !.value = value, !.unseen = TRUE]
    ELSE entry

RouteInit ==
    [entries  |-> [i \in Entries |-> [value |-> None, unseen |-> FALSE,
                                       alive |-> TRUE]],
     before   |-> [i \in Entries |-> [value |-> None, unseen |-> FALSE,
                                       alive |-> TRUE]],
     key      |-> <<>>,
     response |-> None,
     n        |-> 0]

Init ==
    /\ route = RouteInit
    /\ cfg \in Configs
    /\ now = 0
    /\ pc = "start"
    /\ next_delay = 0
    /\ latest = None
    /\ last_execution = 0
    /\ tat = None
    /\ slot = None
    /\ changed = FALSE
    /\ closed = FALSE
    /\ inflight = 0
    /\ sup = "serving"
    /\ joined = 0
    /\ peer = "start"
    /\ sent = 0
    /\ advances = 0
    /\ last = "init"
    /\ first_event_at = None
    /\ last_event_at = None
    /\ observed = None
    /\ deniedSince = FALSE
    /\ spawn = NoSpawn
    /\ evTimes = <<>>
    /\ completedAt = None
    /\ unseenAtClose = FALSE
    /\ spawnsAfterClose = 0

(* The process is alive until run() returns (main.rs:96,104). *)
Alive == sup # "returned"

(* handler.rs:36-49: the locals, then the quota, whose expect() may panic. *)
TaskStart ==
    /\ Alive
    /\ pc = "start"
    /\ IF QuotaPanics
       THEN /\ pc' = "panicked"
            /\ last' = "panic"
            /\ UNCHANGED <<next_delay, last_execution, completedAt>>
       ELSE /\ pc' = "wait"
            /\ last' = "start"
            /\ next_delay' = Period
            /\ last_execution' = now
            /\ completedAt' = now
    /\ latest' = None
    /\ UNCHANGED <<route, cfg, now, tat, slot, changed, closed, inflight, sup, joined,
                   peer, sent, advances, first_event_at, last_event_at,
                   observed, deniedSince, spawn, evTimes, unseenAtClose,
                   spawnsAfterClose>>

(* a receiver that keeps the first value of a burst *)
ObserveFirst(lat, value) == IF lat = None THEN value ELSE lat

(* handler.rs:58  latest = rx.borrow_and_update().clone() *)
Observe(lat, value) == value

(* a delay restarted by every event *)
DelayWaitAlways(event, initial_event) == event /\ cfg.delay # None

(* handler.rs:59-60  if initial_event { if let Some(delay) = self.delay *)
DelayWait(event, initial_event) ==
    event /\ initial_event /\ cfg.delay # None

(* a loop that skips every timer wake with nothing pending *)
IgnoreWakeIdle(event, lat) == ~event /\ lat = None

(* a loop that never skips a timer wake *)
IgnoreWakeNever(event, lat) == FALSE

(* handler.rs:65  else if latest.is_none() && self.periodic.is_none() *)
IgnoreWake(event, lat) ==
    ~event /\ lat = None /\ cfg.periodic = None

(* a gate that rate-limits every spawn *)
NeedsTokenAlways(lat) == TRUE

(* handler.rs:71  if latest.is_some() *)
NeedsToken(lat) == lat # None

(* handler.rs:78  latest.take() leaves None behind *)
Taken(lat) == None

(* a task that starts the child and goes back to waiting *)
AwaitChildNot == "wait"

(* handler.rs:78,105  execute_command(..).await: the task is suspended     *)
(* until command.status() resolves.                                        *)
AwaitChild == "exec"

(* u32::to_string and u16::to_string: decimal digits, no padding *)
Digit(d) ==
    CASE d = 0 -> "0" [] d = 1 -> "1" [] d = 2 -> "2" [] d = 3 -> "3"
      [] d = 4 -> "4" [] d = 5 -> "5" [] d = 6 -> "6" [] d = 7 -> "7"
      [] d = 8 -> "8" [] d = 9 -> "9"

RECURSIVE Decimal(_)
Decimal(n) == IF n < 10 THEN Digit(n) ELSE Decimal(n \div 10) \o Digit(n % 10)

(* The ImseMessage behind payload id (message.rs:5-14), as notify stamped  *)
(* it (main.rs:241); an Option is a sequence of at most one element.       *)
MessageOf(id) ==
    [remote_addr |-> <<[ip |-> "192.0.2.9", port |-> 4000 + id]>>,
     event   |-> HandlerEvent,
     user    |-> HandlerUser,
     unseen  |-> 7 * id,
     folder  |-> IF id % 2 = 1 THEN "INBOX" ELSE "Lists/tla",
     from    |-> IF id % 2 = 1 THEN <<"bob@example.org">> ELSE <<>>,
     snippet |-> IF id = 1 THEN <<>> ELSE <<"see you at 10">>]

(* Option<String>::as_deref().unwrap_or("") *)
UnwrapOrEmpty(opt) == IF opt = <<>> THEN "" ELSE opt[1]

(* an overlay that leaves out the variables of absent fields *)
EnvOverlaySkipAbsent(payload) ==
    {<<"IMSE_USER", HandlerUser>>, <<"IMSE_EVENT", HandlerEvent>>}
    \cup (IF payload = None THEN {} ELSE
           LET message == MessageOf(payload) IN
           {<<"IMSE_REMOTE_IP", message.remote_addr[1].ip>>,
            <<"IMSE_REMOTE_PORT", Decimal(message.remote_addr[1].port)>>,
            <<"IMSE_UNSEEN", Decimal(message.unseen)>>,
            <<"IMSE_FOLDER", message.folder>>}
           \cup {<<"IMSE_FROM", message.from[i]>> : i \in DOMAIN message.from}
           \cup {<<"IMSE_SNIPPET", message.snippet[i]>> :
                     i \in DOMAIN message.snippet})

(* handler.rs:84-101  the environment execute_command adds to the command, *)
(* as a set of <<name, value>>                                             *)
EnvOverlay(payload) ==
    {<<"IMSE_USER", HandlerUser>>, <<"IMSE_EVENT", HandlerEvent>>}
    \cup (IF payload = None THEN {} ELSE
           LET message == MessageOf(payload) IN
           (IF message.remote_addr = <<>> THEN {} ELSE
            {<<"IMSE_REMOTE_IP", message.remote_addr[1].ip>>,
             <<"IMSE_REMOTE_PORT", Decimal(message.remote_addr[1].port)>>})
           \cup {<<"IMSE_UNSEEN", Decimal(message.unseen)>>,
                 <<"IMSE_FOLDER", message.folder>>,
                 <<"IMSE_FROM", UnwrapOrEmpty(message.from)>>,
                 <<"IMSE_SNIPPET", UnwrapOrEmpty(message.snippet)>>})

(* One iteration of the loop body, handler.rs:56-78, after a wake with a    *)
(* changed slot (event) or an elapsed deadline (~event).                    *)
(* a wait measured from the present instead of from last_execution *)
WaitTimeFromNow(from) == Max(EarliestAt(now) - now, 0)

(* handler.rs:73  NotUntil::wait_time_from: the span from `from` to the    *)
(* earliest instant the limiter will admit a cell, zero if already past    *)
WaitTimeFrom(from) == Max(EarliestAt(now) - from, 0)

Outcome(event, lat) ==
    IF DelayWait(event, latest = None) THEN "delay"
    ELSE IF IgnoreWake(event, lat) THEN "ignored"
    ELSE IF NeedsToken(lat) /\ ~CheckOk(now) THEN "denied"
    ELSE "spawn"

Iterate(event) ==
    LET lat   == IF event THEN Observe(latest, slot) ELSE latest
        out   == Outcome(event, lat)
        first == IF event /\ first_event_at = None THEN now ELSE first_event_at
        lobs  == IF event THEN now ELSE last_event_at
        obs   == IF event THEN slot ELSE observed
        tat2  == IF NeedsToken(lat) THEN TatAfter(now) ELSE tat
    IN  /\ last' = out
        /\ changed' = IF event THEN FALSE ELSE changed
        /\ CASE out = "delay" ->
                  /\ latest' = lat
                  /\ next_delay' = (now - last_execution) + cfg.delay
                  /\ UNCHANGED <<pc, last_execution, tat, inflight>>
             [] out = "ignored" ->
                  /\ UNCHANGED sched
             [] out = "denied" ->
                  /\ latest' = lat
                  /\ next_delay' = WaitTimeFrom(last_execution)
                  /\ UNCHANGED <<pc, last_execution, tat, inflight>>
             [] out = "spawn" ->
                  /\ latest' = Taken(lat)
                  /\ tat' = tat2
                  /\ inflight' = inflight + 1
                  /\ pc' = AwaitChild
                  /\ UNCHANGED <<next_delay, last_execution>>
        /\ IF out = "spawn"
           THEN /\ spawn' = [t |-> now, msg |-> lat, first |-> first,
                             lastObs |-> lobs, observed |-> obs,
                             denied |-> deniedSince, base |-> completedAt,
                             tatBefore |-> tat, tatAfter |-> tat2,
                             closed |-> closed, env |-> EnvOverlay(lat)]
                /\ evTimes' = IF lat = None THEN evTimes
                              ELSE IF Len(evTimes) < 3 THEN Append(evTimes, now)
                              ELSE Append(Tail(evTimes), now)
                /\ first_event_at' = None
                /\ last_event_at' = None
                /\ observed' = None
                /\ deniedSince' = FALSE
                /\ spawnsAfterClose' = spawnsAfterClose + (IF closed THEN 1 ELSE 0)
           ELSE /\ first_event_at' = first
                /\ last_event_at' = lobs
                /\ observed' = obs
                /\ deniedSince' = (deniedSince \/ out = "denied")
                /\ UNCHANGED <<spawn, evTimes, spawnsAfterClose>>
        /\ UNCHANGED <<route, cfg, now, slot, closed, sup, joined, peer, sent,
                       advances, completedAt, unseenAtClose>>

(* handler.rs:51-55  rx.changed() is polled before the deadline and answers *)
(* Ok for an unseen value, also on a closed channel.                        *)
WakeEvent ==
    /\ Alive
    /\ pc = "wait"
    /\ changed
    /\ Iterate(TRUE)

(* a loop that does not end when the channel closes *)
LoopEndsNever == FALSE

(* handler.rs:51-55  rx.changed() answers Err once every sender is gone and *)
(* nothing is unseen: while let ends and the task returns.                  *)
LoopEnds == closed /\ ~changed

(* a timeout that looks at the clock before it polls the channel *)
ElapsedFirst == now >= Deadline

(* handler.rs:51-52  timeout_at polls rx.changed() first and reports       *)
(* Elapsed only when that is pending and the deadline has passed           *)
Elapsed == ~changed /\ now >= Deadline

WakeTimer ==
    /\ Alive
    /\ pc = "wait"
    /\ Elapsed
    /\ ~LoopEnds
    /\ Iterate(FALSE)

WakeClosed ==
    /\ Alive
    /\ pc = "wait"
    /\ LoopEnds
    /\ pc' = "done"
    /\ last' = "closed"
    /\ UNCHANGED <<route, cfg, now, next_delay, latest, last_execution, tat, slot,
                   changed, closed, inflight, sup, joined, peer, sent,
                   advances, unseenAtClose>>
    /\ UNCHANGED hist

(* handler.rs:105  what command.status().await resolves to: Ok with a zero *)
(* or a non-zero exit status, or Err when the child could not be started.  *)
ChildResults == {"exit_ok", "exit_code", "spawn_failed"}

(* a task that gives up when its command cannot be started *)
AfterChildFatal(res) == IF res = "spawn_failed" THEN "done" ELSE "wait"

(* handler.rs:106-122  either result is logged and execute_command returns *)
(* (); the loop goes on at line 79.                                        *)
AfterChild(res) == "wait"

(* handler.rs:105-122 and 79-80: the child exits (or failed to start), then *)
(* last_execution = Instant::now(); next_delay = period.                    *)
ChildExit ==
    /\ Alive
    /\ inflight > 0
    /\ inflight' = inflight - 1
    /\ last_execution' = now
    /\ next_delay' = Period
    /\ completedAt' = now
    /\ \E res \in ChildResults :
          /\ pc' = AfterChild(res)
          /\ last' = res
    /\ UNCHANGED <<route, cfg, now, latest, tat, slot, changed, closed, sup, joined,
                   peer, sent, advances, first_event_at, last_event_at,
                   observed, deniedSince, spawn, evTimes, unseenAtClose,
                   spawnsAfterClose>>

(* main.rs:243-248  notify: handler.send(Some(message)); send fails and     *)
(* stores nothing once the receiver is gone.                                *)
ReceiverAlive == pc \notin {"done", "panicked"}

Send ==
    /\ Alive
    /\ sup = "serving"
    /\ sent < MaxEvents
    /\ sent' = sent + 1
    /\ IF ReceiverAlive
       THEN slot' = sent + 1 /\ changed' = TRUE
       ELSE UNCHANGED <<slot, changed>>
    /\ UNCHANGED <<route, cfg, now, closed, sup, joined, peer, advances, last,
                   unseenAtClose>>
    /\ UNCHANGED sched
    /\ UNCHANGED hist

(* main.rs:172-181  serve() returns after shutdown: the router and with it  *)
(* every HandlerSender is dropped; run() goes on to line 183.  The spawned  *)
(* tasks were first polled when run() suspended in serve().                 *)
Shutdown ==
    /\ sup = "serving"
    /\ pc # "start"
    /\ peer # "start"
    /\ sup' = "joining"
    /\ closed' = TRUE
    /\ unseenAtClose' = changed
    /\ UNCHANGED <<route, cfg, now, slot, changed, joined, peer, sent, advances, last>>
    /\ UNCHANGED sched
    /\ UNCHANGED hist

(* Another handler of the configuration: its task (handler.rs:35-82) seen   *)
(* from run(): it panics on its quota or runs until its slot closes.        *)
PeerStart ==
    /\ Alive
    /\ peer = "start"
    /\ \E lp \in LimitPeriods :
          peer' = IF lp # None /\ lp = 0 THEN "panicked" ELSE "running"
    /\ UNCHANGED <<route, cfg, now, slot, changed, closed, sup, joined, sent,
                   advances, last, unseenAtClose>>
    /\ UNCHANGED sched
    /\ UNCHANGED hist

PeerExit ==
    /\ Alive
    /\ peer = "running"
    /\ closed
    /\ peer' = "done"
    /\ UNCHANGED <<route, cfg, now, slot, changed, closed, sup, joined, sent,
                   advances, last, unseenAtClose>>
    /\ UNCHANGED sched
    /\ UNCHANGED hist

(* main.rs:108-115  tasks in configuration order: the peer, then this one *)
Tasks == <<"peer", "self">>
NumTasks == Len(Tasks)
TaskState(i) == IF Tasks[i] = "peer" THEN peer ELSE pc

(* main.rs:183-187  for task in tasks { task.await?; } Ok(()) *)
Join ==
    /\ sup = "joining"
    /\ joined < NumTasks
    /\ TaskState(joined + 1) \in {"done", "panicked"}
    /\ IF TaskState(joined + 1) = "panicked"
       THEN sup' = "returned" /\ UNCHANGED joined
       ELSE /\ joined' = joined + 1
            /\ sup' = IF joined + 1 = NumTasks THEN "returned" ELSE sup
    /\ UNCHANGED <<route, cfg, now, slot, changed, closed, peer, sent, advances,
                   last, unseenAtClose>>
    /\ UNCHANGED sched
    /\ UNCHANGED hist

(* The runtime polls a ready task without letting time pass: a task that   *)
(* has not started, a changed or closed slot, an elapsed deadline.  The    *)
(* ignored wake of handler.rs:65-68 leaves the deadline elapsed, and the   *)
(* loop spins while the clock runs on.                                     *)
Spinning == ~changed /\ ~LoopEnds /\ now >= Deadline /\ IgnoreWake(FALSE, latest)

Ready ==
    \/ pc = "start"
    \/ peer = "start"
    \/ pc = "wait" /\ (changed \/ LoopEnds \/ now >= Deadline) /\ ~Spinning

(* The clock, for as long as the task is there to read it: a second        *)
(* passes, or the task sleeps through to its deadline.                     *)
Advance ==
    /\ Alive
    /\ pc \in {"wait", "exec"}
    /\ ~Ready
    /\ advances < MaxAdvances
    /\ advances' = advances + 1
    /\ \E d \in {1} \cup (IF pc = "wait" /\ Deadline > now
                          THEN {Deadline - now} ELSE {}) :
          now' = now + d
    /\ UNCHANGED <<route, cfg, slot, changed, closed, sup, joined, peer, sent, last,
                   unseenAtClose>>
    /\ UNCHANGED sched
    /\ UNCHANGED hist

(* main.rs:234-251  notify: one request carrying an event with key k *)
Notify ==
    /\ route.n < MaxEvents
    /\ \E k \in EventKeys :
          route' = [entries  |-> [i \in Entries |->
                                     IF Matches(Registry[i], k)
                                     THEN SlotAfterSend(route.entries[i],
                                                        route.n + 1)
                                     ELSE route.entries[i]],
                    before   |-> route.entries,
                    key      |-> <<k>>,
                    response |-> StatusOK,
                    n        |-> route.n + 1]
    /\ UNCHANGED <<cfg, now, slot, changed, closed, sup, joined, peer, sent,
                   advances, last, unseenAtClose>>
    /\ UNCHANGED sched
    /\ UNCHANGED hist

(* handler.rs:58  the scheduler behind entry i reads its slot *)
ReceiverObserve ==
    /\ \E i \in Entries :
          /\ route.entries[i].alive
          /\ route.entries[i].unseen
          /\ route' = [route EXCEPT !.entries[i].unseen = FALSE]
    /\ UNCHANGED <<cfg, now, slot, changed, closed, sup, joined, peer, sent,
                   advances, last, unseenAtClose>>
    /\ UNCHANGED sched
    /\ UNCHANGED hist

(* handler.rs:41-47  the scheduler behind entry i exits (its task panics), *)
(* dropping the receiver                                                   *)
ReceiverExit ==
    /\ \E i \in Entries :
          /\ route.entries[i].alive
          /\ route' = [route EXCEPT !.entries[i].alive = FALSE]
    /\ UNCHANGED <<cfg, now, slot, changed, closed, sup, joined, peer, sent,
                   advances, last, unseenAtClose>>
    /\ UNCHANGED sched
    /\ UNCHANGED hist

RouteNext ==
    \/ Notify
    \/ ReceiverObserve
    \/ ReceiverExit

(* the front end alone, over the whole registry; the handlers' settings    *)
(* play no part in notify, so all are left unset                           *)
RouteStart == Init /\ \A f \in DOMAIN cfg : cfg[f] = None

RouteSpec == RouteStart /\ [][RouteNext]_vars

Next ==
    \/ TaskStart
    \/ WakeEvent
    \/ WakeTimer
    \/ WakeClosed
    \/ ChildExit
    \/ Send
    \/ Shutdown
    \/ PeerStart
    \/ PeerExit
    \/ Join
    \/ Advance

Spec == Init /\ [][Next]_vars

(* The runtime polls every task that can run, every child the scheduler   *)
(* awaits exits, and time passes.                                          *)
(* Every non-zero limit_period builds the limiter of an unset one          *)
(* (QuotaPeriod), so one of them stands for all.                           *)
FairStart == Init /\ cfg.limit_period \in {None, 0}

FairSpec ==
    /\ FairStart
    /\ [][Next]_vars
    /\ WF_vars(TaskStart)
    /\ WF_vars(PeerStart)
    /\ WF_vars(WakeEvent)
    /\ WF_vars(WakeTimer)
    /\ WF_vars(ChildExit)
    /\ WF_vars(Advance)

---------------------------------------------------------------------------
(* Properties *)

Spawned == spawn.t # None
EventDriven == Spawned /\ spawn.msg # None

(* C1: at most one child of the handler is in flight at any moment, and    *)
(* while it is the task stays suspended on it: no wake is serviced and no  *)
(* further spawn starts until the child has exited.                        *)
C1_AtMostOneChild ==
    /\ inflight <= 1
    /\ inflight = 1 => pc = "exec"
    /\ pc = "exec" => inflight = 1

(* an event was written and a second passed while the child was running *)
C1_Witness ==
    /\ inflight = 1
    /\ pc = "exec"
    /\ changed
    /\ now > spawn.t

(* C2: with delay D set, every event-driven spawn at T has an event        *)
(* observed at some T0 since the previous spawn with T >= T0 + D.  The     *)
(* earliest such event is the first one observed since the previous        *)
(* commit, so it is the one the statement is checked with.                 *)
C2_DelayRespected ==
    (EventDriven /\ cfg.delay # None) => spawn.t >= spawn.first + cfg.delay

(* C3: with delay D set and a token available, a burst first observed at   *)
(* T0 whose events are all observed before T0 + D gives one spawn, at      *)
(* T0 + D, carrying the last event observed.                               *)
C3_BurstAnchored ==
    (/\ EventDriven
     /\ cfg.delay # None
     /\ ~spawn.denied
     /\ spawn.lastObs < spawn.first + cfg.delay)
    => (spawn.t = spawn.first + cfg.delay /\ spawn.msg = spawn.observed)

(* the rate period the handler is configured with: limit_period if set and *)
(* non-zero, else 30s                                                      *)
ConfiguredRatePeriod ==
    IF cfg.limit_period # None /\ cfg.limit_period # 0
    THEN cfg.limit_period
    ELSE DefaultLimitSecs

(* C4: no sliding window of limit_period holds more than limit_burst       *)
(* event-driven spawns: any limit_burst + 1 consecutive event-driven       *)
(* spawns span at least limit_period.                                      *)
C4_SlidingWindow ==
    \A i \in 1..Len(evTimes) :
        (i + Burst <= Len(evTimes))
        => (evTimes[i + Burst] - evTimes[i] >= ConfiguredRatePeriod)

(* C5: the payload of every spawn is the most recent event observed since  *)
(* the previous commit, empty exactly when none was observed; latest is    *)
(* cleared at the commit, so while the child runs nothing is pending and   *)
(* an event written meanwhile waits unobserved in the slot.                *)
C5_LatestWins ==
    /\ Spawned => spawn.msg = spawn.observed
    /\ pc = "exec" => (latest = None /\ observed = None /\ first_event_at = None)
    /\ pc = "wait" => latest = observed

(* a spawn that coalesced two observations, with a further event written   *)
(* while its child runs                                                    *)
C5_Witness ==
    /\ pc = "exec"
    /\ EventDriven
    /\ spawn.first < spawn.lastObs
    /\ spawn.msg = 2
    /\ changed
    /\ slot = 3

(* C6: with periodic unset every spawn follows an event observed since the *)
(* previous spawn; the idle wake does not spawn.                           *)
C6_NoSpawnWithoutEvent ==
    cfg.periodic = None =>
        /\ Spawned => (spawn.observed # None /\ spawn.msg # None)
        /\ last = "ignored" => (pc = "wait" /\ inflight = 0)

(* the idle wake fired, an hour after the task started *)
C6_Witness ==
    /\ cfg.periodic = None
    /\ last = "ignored"
    /\ now >= IdleWakeSecs
    /\ ~Spawned

(* C7: with periodic = P set and no events, every spawn begins P after the *)
(* previous child exited (P after task start for the first) and carries an *)
(* empty payload; between spawns the task sleeps until exactly that time.  *)
C7_PeriodicInterval ==
    (cfg.periodic # None /\ sent = 0) =>
        /\ Spawned => (spawn.t = spawn.base + cfg.periodic /\ spawn.msg = None)
        /\ pc = "wait" => (Deadline = completedAt + cfg.periodic /\ latest = None)
        /\ (pc = "wait" /\ ~closed) => now <= Deadline

(* a second periodic spawn, after a first child that ran for a while *)
C7_Witness ==
    /\ cfg.periodic # None
    /\ sent = 0
    /\ Spawned
    /\ spawn.base > cfg.periodic
    /\ spawn.t = spawn.base + cfg.periodic

(* C8: a spawn with an empty payload is not gated: it leaves the limiter   *)
(* state as it was and begins at the periodic deadline; only a pending     *)
(* event is ever denied.                                                   *)
C8_PeriodicBypassesLimiter ==
    /\ (Spawned /\ spawn.msg = None) =>
          /\ cfg.periodic # None
          /\ spawn.tatAfter = spawn.tatBefore
          /\ spawn.t = spawn.base + cfg.periodic
    /\ last = "denied" => latest # None

(* a periodic spawn made while the bucket is empty *)
C8_Witness ==
    /\ pc = "exec"
    /\ Spawned
    /\ spawn.msg = None
    /\ tat # None
    /\ ~CheckOk(now)

C10_ShutdownDrains ==
    /\ pc = "done" => inflight = 0
    /\ sup = "returned" =>
          \A i \in 1..NumTasks : TaskState(i) \in {"done", "panicked"}

(* C11: the limiter's period is limit_period when that is set and non-zero *)
(* and 30s otherwise, and building the limiter never aborts the task.      *)
C11_RatePeriod ==
    pc # "start" => (pc # "panicked" /\ QuotaPeriod = ConfiguredRatePeriod)

(* C12: the bucket starts full with limit_burst tokens and refills one     *)
(* token every limit_period / limit_burst: the gate denies only after      *)
(* limit_burst event-driven spawns, and then never makes the pending       *)
(* event wait longer than one refill interval (in S2, until t=5).          *)
C12_TokenBucket ==
    (last = "denied" /\ pc = "wait") =>
        /\ Len(evTimes) >= Burst
        /\ Deadline - now <= ConfiguredRatePeriod \div Burst

(* C13: a command that could not be started or exited non-zero leaves the  *)
(* scheduler where a successful one does: waiting, latest empty,           *)
(* last_execution at the child's end, the deadline one period later, the   *)
(* limiter as the gate left it (no refund), and nothing pending to retry.  *)
C13_FailureIsIgnored ==
    last \in {"spawn_failed", "exit_code"} =>
        /\ pc = "wait"
        /\ inflight = 0
        /\ latest = None
        /\ last_execution = completedAt
        /\ Deadline = completedAt + Period
        /\ tat = spawn.tatAfter
        /\ first_event_at = None

(* an event-driven command failed to start and the task sleeps on *)
C13_Witness ==
    /\ last = "spawn_failed"
    /\ pc = "wait"
    /\ spawn.msg # None
    /\ tat # None
    /\ now > completedAt

EnvNames(env) == {p[1] : p \in env}
EventNames == {"IMSE_UNSEEN", "IMSE_FOLDER", "IMSE_FROM", "IMSE_SNIPPET"}
RemoteNames == {"IMSE_REMOTE_IP", "IMSE_REMOTE_PORT"}

(* C14: every spawn's overlay names IMSE_USER and IMSE_EVENT with the      *)
(* handler's user and event; it names IMSE_UNSEEN, IMSE_FOLDER, IMSE_FROM  *)
(* and IMSE_SNIPPET exactly when the payload is not empty, with the        *)
(* payload's values ("" for an absent from or snippet), IMSE_REMOTE_IP and *)
(* IMSE_REMOTE_PORT exactly when the payload is not empty and its remote   *)
(* address is known, and nothing else.                                     *)
C14_EnvOverlay ==
    Spawned =>
        LET env == spawn.env
            names == EnvNames(env)
        IN  /\ Cardinality(env) = Cardinality(names)
            /\ <<"IMSE_USER", "alice">> \in env
            /\ <<"IMSE_EVENT", "MessageNew">> \in env
            /\ names \subseteq {"IMSE_USER", "IMSE_EVENT"} \cup EventNames \cup RemoteNames
            /\ IF spawn.msg = None
               THEN names = {"IMSE_USER", "IMSE_EVENT"}
               ELSE /\ EventNames \subseteq names
                    /\ <<"IMSE_FOLDER", MessageOf(spawn.msg).folder>> \in env
                    /\ (MessageOf(spawn.msg).remote_addr # <<>>) =>
                           /\ <<"IMSE_REMOTE_IP", "192.0.2.9">> \in env
                           /\ RemoteNames \subseteq names
                    /\ (MessageOf(spawn.msg).remote_addr = <<>>) =>
                           RemoteNames \cap names = {}
                    /\ spawn.msg = 1 =>
                           /\ <<"IMSE_UNSEEN", "7">> \in env
                           /\ <<"IMSE_FROM", "bob@example.org">> \in env
                           /\ <<"IMSE_SNIPPET", "">> \in env
                           /\ <<"IMSE_REMOTE_PORT", "4001">> \in env
                    /\ spawn.msg = 2 =>
                           /\ <<"IMSE_UNSEEN", "14">> \in env
                           /\ <<"IMSE_FROM", "">> \in env
                           /\ <<"IMSE_SNIPPET", "see you at 10">> \in env
                           /\ <<"IMSE_REMOTE_PORT", "4002">> \in env

(* an event-driven spawn whose event has no from, after a periodic one *)
C14_Witness ==
    /\ Spawned
    /\ spawn.msg = 2
    /\ spawn.base > 0
    /\ cfg.periodic # None
    /\ Cardinality(spawn.env) = 8

(* C15: a request with key k stores its event in the slot of every entry   *)
(* whose (event, user) is k and whose receiver exists, both entries of a   *)
(* shared key included, leaves every other slot as it was (an entry whose  *)
(* scheduler has exited included), and answers 200 whether or not an       *)
(* entry matched.                                                          *)
C15_Routing ==
    [][route'.n # route.n =>
        /\ route'.response = 200
        /\ \A i \in Entries :
              LET hit == /\ Registry[i].event = route'.key[1].event
                         /\ Registry[i].user = route'.key[1].user
                  was == route.entries[i]
                  is  == route'.entries[i]
              IN  /\ (hit /\ was.alive) => (is.value = route'.n /\ is.unseen)
                  /\ (hit /\ was.alive) => is.value # was.value
                  /\ ~(hit /\ was.alive) => is = was
                  /\ is.alive = was.alive]_vars

(* the shared key is hit: entry 1 held an unseen event and is overwritten, *)
(* entry 3's scheduler has exited and its slot keeps the older event, and  *)
(* the two other entries are untouched                                     *)
C15_Witness ==
    /\ route.n = MaxEvents
    /\ route.key = <<[event |-> "MessageNew", user |-> "alice"]>>
    /\ route.before[1].unseen /\ route.before[1].value = 1
    /\ route.entries[1].value = route.n
    /\ ~route.before[3].alive /\ route.entries[3].value = 1
    /\ route.entries[2].value = 2
    /\ route.entries[4].value = None
    /\ route.response = 200

(* C16: the idle safety wake (timer wake, nothing pending, periodic unset) *)
(* spawns nothing and leaves the deadline strictly in the future.          *)
C16_IdleWakeRearms ==
    [][(last # "ignored" /\ last' = "ignored") =>
          /\ inflight' = inflight
          /\ pc' = "wait"
          /\ Deadline' > now']_vars

(* a spawn is pending behind the rate-limit gate *)
GateWait == deniedSince /\ pc = "wait"

(* C17: a denial consumes no token and keeps latest; while the spawn waits *)
(* behind the gate the deadline is the earliest instant the limiter admits *)
(* a cell, an event observed meanwhile replaces latest and leaves that     *)
(* deadline in place, and the spawn that follows a denial is made at that  *)
(* deadline, consumes a token, and carries the latest event observed.      *)
C17_DeniedWaitsForToken ==
    [][/\ (last' = "denied" /\ (last # "denied" \/ (changed /\ ~changed'))) =>
             /\ tat' = tat
             /\ inflight' = inflight
             /\ latest' = (IF changed THEN slot ELSE latest)
       /\ GateWait' =>
             /\ latest' # None
             /\ latest' = observed'
             /\ now' <= Deadline'
             /\ CheckOk(Deadline)'
             /\ ~CheckOk(Deadline - 1)'
       /\ (GateWait /\ GateWait' /\ changed /\ ~changed') =>
             /\ latest' = slot
             /\ Deadline' = Deadline
       /\ (GateWait /\ pc' = "exec") =>
             /\ now' = Deadline
             /\ spawn'.msg = (IF changed THEN slot ELSE latest)
             /\ spawn'.msg # None
             /\ tat' # tat
      ]_vars

(* without a delay the first event of the burst was denied at once; a      *)
(* later event replaced it, and the timer wake at the token's deadline     *)
(* spawned with that later event                                           *)
C17_Witness ==
    /\ Spawned
    /\ spawn.denied
    /\ cfg.delay = None
    /\ spawn.lastObs > spawn.first
    /\ spawn.t > spawn.lastObs
    /\ spawn.msg = spawn.observed
    /\ spawn.msg = sent

(* an observed event waits for its spawn *)
Pending == pc = "wait" /\ latest # None

(* the later of the end of the first event's delay and the instant the     *)
(* limiter admits a cell: neither moves while the event is pending         *)
PendingBound ==
    Max(first_event_at + (IF cfg.delay = None THEN 0 ELSE cfg.delay),
        EarliestAt(first_event_at))

(* C18: while an event is pending the deadline never lies beyond the later *)
(* of first event + delay and the limiter's next admission, whatever       *)
(* events arrive meanwhile; and with the slot open, children exiting and   *)
(* time passing, a pending event leads to an event-driven spawn.           *)
C18_FloodCannotPostpone ==
    /\ [][Pending' => (first_event_at' # None /\ Deadline' <= PendingBound')]_vars
    /\ [][(Pending /\ Pending') =>
              (first_event_at' = first_event_at /\ PendingBound' = PendingBound)]_vars
    /\ Pending ~> \/ pc = "exec" /\ spawn.msg # None
                  \/ closed
                  \/ advances = MaxAdvances

(* a spawn that carries the last of several events posted while the first *)
(* waited for its delay and then for a token                               *)
C18_Witness ==
    /\ Spawned
    /\ pc = "exec"
    /\ ~closed
    /\ cfg.delay # None
    /\ spawn.denied
    /\ spawn.first < spawn.lastObs
    /\ spawn.msg = MaxEvents
    /\ spawn.t = Max(spawn.first + cfg.delay, Max(spawn.tatBefore - GcraTau, 0))

(* the deadline has been reached and the slot holds an unseen value *)
Race == Alive /\ pc = "wait" /\ changed /\ now >= Deadline

(* C19: the wake taken in a race is an event wake: the slot's value is     *)
(* read, a first event takes the delay, a spawn answers to the gate, and   *)
(* a spawn made at that wake carries the slot's value.                     *)
C19_SlotChangeWins ==
    [][(Race /\ (sched' # sched \/ last' # last \/ changed' # changed)) =>
          /\ ~changed'
          /\ last' \in {"delay", "denied", "spawn"}
          /\ (latest = None /\ cfg.delay # None) =>
                 /\ last' = "delay"
                 /\ latest' = slot
                 /\ Deadline' = now + cfg.delay
          /\ last' = "denied" =>
                 /\ ~CheckOk(now)
                 /\ latest' = slot
                 /\ tat' = tat
          /\ last' = "spawn" =>
                 /\ CheckOk(now)
                 /\ tat' # tat
                 /\ pc' = "exec"
                 /\ spawn'.msg = slot
                 /\ spawn'.msg # None
                 /\ spawn'.env # EnvOverlay(None)
      ]_vars

(* an event posted at the very instant of the periodic deadline: the spawn *)
(* made at that wake is the event's                                        *)
C19_Witness ==
    /\ Spawned
    /\ cfg.periodic # None
    /\ cfg.delay = None
    /\ spawn.base # None
    /\ spawn.t = spawn.base + cfg.periodic
    /\ spawn.first = spawn.t
    /\ spawn.msg = sent
    /\ ~spawn.denied

(* C20: with periodic = P set, every spawn begins no later than P after    *)
(* the previous spawn completed (or after task start), whatever events     *)
(* arrive.                                                                 *)
C20_PeriodicBoundsSpawn ==
    (Spawned /\ cfg.periodic # None) => spawn.t <= spawn.base + cfg.periodic

(* C20, amended: with periodic = P set the deadline is the previous        *)
(* completion + P while no event is pending, and the task acts by its      *)
(* deadline; a pending event replaces the deadline by its first event +    *)
(* delay or, once denied, by the limiter's next admission, and only a      *)
(* spawn of such an event begins later than P after the previous           *)
(* completion, at that replaced deadline at the latest.                    *)
C20_PeriodicUnlessPending ==
    cfg.periodic # None =>
        /\ pc = "wait" => now <= Deadline
        /\ (pc = "wait" /\ latest = None) =>
               Deadline = completedAt + cfg.periodic
        /\ (pc = "wait" /\ latest # None /\ ~deniedSince) =>
               (cfg.delay # None /\ Deadline = first_event_at + cfg.delay)
        /\ (pc = "wait" /\ latest # None /\ deniedSince) =>
               Deadline = Max(tat - GcraTau, 0)
        /\ (Spawned /\ spawn.t > spawn.base + cfg.periodic) =>
               /\ spawn.msg # None
               /\ spawn.denied \/ cfg.delay # None
               /\ spawn.t <= Max(spawn.first + Max(cfg.delay, 0),
                                 spawn.tatBefore - GcraTau)

(* an event denied by the gate is spawned at the limiter's admission time, *)
(* later than P after the previous completion                              *)
C20_Witness ==
    /\ Spawned
    /\ cfg.periodic # None
    /\ spawn.denied
    /\ spawn.msg # None
    /\ spawn.t > spawn.base + cfg.periodic

====
